---- MODULE Spec2Model ----
(***************************************************************************)
(* Model of the shipping-eligibility pipeline of weather.py:               *)
(* process_orders_csv (second pass) calling analyze_shipping_conditions    *)
(* once per order, followed by generate_shipping_report.                   *)
(*                                                                         *)
(* Conventions.                                                            *)
(*  - A datetime is [day |-> ordinal, hour |-> 0..23]; ordinal 0 is        *)
(*    Monday 2024-12-23, so datetime.weekday() is day % 7.                 *)
(*  - strftime("%Y-%m-%d") yields the calendar date <<year, month, day>>.  *)
(*  - Temperatures are integers in tenths of a degree Celsius.  A mean     *)
(*    sum(xs)/len(xs) is kept as the exact fraction <<sum, len>>.          *)
(*  - Python None for a float/tuple value is the empty tuple <<>>.         *)
(*  - A dict is a TLA+ record; its keys are DOMAIN of the record.          *)
(***************************************************************************)
EXTENDS Integers, Sequences, FiniteSets, TLC

VARIABLES clock, rows, pc, row_index, processed_order_ids,
          shipping_decisions, locals, sorted_decisions, shipping_report,
          csv_exists, order_quantities, warehouse_pick_list, io,
          products, recommendations, shopify_orders

vars == <<clock, rows, pc, row_index, processed_order_ids,
          shipping_decisions, locals, sorted_decisions, shipping_report,
          csv_exists, order_quantities, warehouse_pick_list, io,
          products, recommendations, shopify_orders>>

\* The state of the other two programs of the repository.
other_programs == <<products, recommendations, shopify_orders>>

None == <<>>

(***************************************************************************)
(* Bounds of the model.                                                    *)
(***************************************************************************)
MaxRows == 2

MaxSamples == 2

\* Products in the vendor's catalog.
MaxProducts == 2

(***************************************************************************)
(* Program constants.                                                      *)
(***************************************************************************)
WEDNESDAY == 2

THURSDAY == 3

CUTOFF_HOUR == 17

WINDOW_FIRST_HOUR == 10

WINDOW_LAST_HOUR == 17

MIN_TEMP == -20

EXTRA_COLD_MAX == 0

HEATPACK_TEMP == 80

\* tropica_po_recommendation.py line 232: sales from which the buffer is
\* 1.2 instead of 1.15 (buffers in hundredths).
HIGH_SALES == 10

BUFFER_HIGH == 120

BUFFER_LOW == 115

(***************************************************************************)
(* datetime: weekday(), + timedelta(days=n), strftime("%Y-%m-%d").         *)
(***************************************************************************)
weekday(dt) == dt.day % 7

PlusDays(dt, n) == [day |-> dt.day + n, hour |-> dt.hour]

\* The months that follow Monday 2024-12-23 and their lengths.
Months == << <<2024, 12, 31>>, <<2025, 1, 31>>, <<2025, 2, 28>>, <<2025, 3, 31>> >>

RECURSIVE DateFrom(_, _)
DateFrom(m, dom) ==
    IF m = Len(Months) \/ dom <= Months[m][3]
    THEN <<Months[m][1], Months[m][2], dom>>
    ELSE DateFrom(m + 1, dom - Months[m][3])

strftime(dt) == DateFrom(1, 23 + dt.day)

\* Calendar dates compare as (year, month, day).
DateLeq(a, b) ==
    \/ a[1] < b[1]
    \/ a[1] = b[1] /\ a[2] < b[2]
    \/ a[1] = b[1] /\ a[2] = b[2] /\ a[3] <= b[3]

(***************************************************************************)
(* Date resolution (weather.py 57-68, repeated at 256-267).                *)
(***************************************************************************)
days_until_no_mod(target_weekday, today) ==
    LET d == target_weekday - weekday(today)
    IN  IF d = 0 /\ today.hour >= CUTOFF_HOUR THEN 7 ELSE d

days_until_mut(target_weekday, today) ==
    LET d == (target_weekday - weekday(today)) % 7
    IN  IF d = 0 /\ today.hour > CUTOFF_HOUR THEN 7 ELSE d

days_until(target_weekday, today) ==
    LET d == (target_weekday - weekday(today)) % 7
    IN  IF d = 0 /\ today.hour >= CUTOFF_HOUR THEN 7 ELSE d

days_until_wednesday(today) == days_until(WEDNESDAY, today)

days_until_thursday(today) == days_until(THURSDAY, today)

wednesday_date_of(today) == strftime(PlusDays(today, days_until_wednesday(today)))

thursday_date_of(today) == strftime(PlusDays(today, days_until_thursday(today)))

(***************************************************************************)
(* get_weather_forecast with default arguments: the requested window.      *)
(***************************************************************************)
days_until_end_of_week_mut(today) == 7 - weekday(today)

days_until_end_of_week(today) == 7 - weekday(today) + 4

forecast_window(today) ==
    [start_date |-> strftime(today),
     end_date   |-> strftime(PlusDays(today, days_until_end_of_week(today)))]

(***************************************************************************)
(* dict helpers: d.get(k, default) and truthiness of a dict or None.       *)
(***************************************************************************)
Get(d, k, default) == IF k \in DOMAIN d THEN d[k] ELSE default

Falsy(d) == DOMAIN d = {}

(***************************************************************************)
(* Collaborators' replies.  An HTTP response is                            *)
(* [status_code |-> n, json |-> body].                                     *)
(***************************************************************************)
get_coordinates_mut(response) ==
    IF response.json # <<>>
    THEN response.json[1]
    ELSE None

get_coordinates(response) ==
    IF response.status_code = 200 /\ response.json # <<>>
    THEN response.json[1]
    ELSE None

get_weather_forecast(response) ==
    IF response.status_code = 200 THEN response.json ELSE None

(***************************************************************************)
(* analyze_shipping_conditions: the filter loop over the hourly series.    *)
(* A time string "YYYY-MM-DDTHH:00" is <<date, hour>>: split("T")[0] is    *)
(* its first component and the parsed hour its second.                     *)
(***************************************************************************)
in_business_hours_mut(hour) == WINDOW_FIRST_HOUR <= hour /\ hour < WINDOW_LAST_HOUR

in_business_hours(hour) == WINDOW_FIRST_HOUR <= hour /\ hour <= WINDOW_LAST_HOUR

RECURSIVE filter_loop(_, _, _, _, _, _)
filter_loop(i, hourly_times, hourly_temps, wednesday_date, thursday_date, acc) ==
    IF i > Len(hourly_times) THEN acc
    ELSE LET date_part == hourly_times[i][1]
             hour == hourly_times[i][2]
             acc2 == IF date_part = wednesday_date /\ in_business_hours(hour)
                     THEN [acc EXCEPT !.wednesday = Append(@, hourly_temps[i])]
                     ELSE IF date_part = thursday_date /\ in_business_hours(hour)
                     THEN [acc EXCEPT !.thursday = Append(@, hourly_temps[i])]
                     ELSE acc
         IN  filter_loop(i + 1, hourly_times, hourly_temps,
                         wednesday_date, thursday_date, acc2)

business_hours_temps(hourly_times, hourly_temps, wednesday_date, thursday_date) ==
    filter_loop(1, hourly_times, hourly_temps, wednesday_date, thursday_date,
                [wednesday |-> <<>>, thursday |-> <<>>])

RECURSIVE sum(_)
sum(xs) == IF xs = <<>> THEN 0 ELSE Head(xs) + sum(Tail(xs))

\* sum(xs) / len(xs), or None for an empty list.
avg_temp(xs) == IF xs = <<>> THEN None ELSE <<sum(xs), Len(xs)>>

\* Comparisons of a mean <<s, n>> (n > 0) with a threshold in tenths.
Geq(avg, t) == avg[1] >= t * avg[2]

Leq(avg, t) == avg[1] <= t * avg[2]

Lt(avg, t) == avg[1] < t * avg[2]

delivery(avg) == avg # None /\ Geq(avg, MIN_TEMP)

is_extra_cold(wednesday_delivery, wed_avg_temp, thursday_delivery, thu_avg_temp) ==
    \/ wednesday_delivery /\ wed_avg_temp # None
       /\ Leq(wed_avg_temp, EXTRA_COLD_MAX) /\ Geq(wed_avg_temp, MIN_TEMP)
    \/ thursday_delivery /\ thu_avg_temp # None
       /\ Leq(thu_avg_temp, EXTRA_COLD_MAX) /\ Geq(thu_avg_temp, MIN_TEMP)

base_reason_mut(can_ship, wednesday_delivery, thursday_delivery) ==
    IF ~can_ship THEN "Temperature too low on both Wednesday and Thursday"
    ELSE IF wednesday_delivery /\ ~thursday_delivery
    THEN "Delivery possible on Thursday only"
    ELSE IF thursday_delivery /\ ~wednesday_delivery
    THEN "Delivery possible on Wednesday only"
    ELSE "Weather conditions acceptable for delivery"

base_reason(can_ship, wednesday_delivery, thursday_delivery) ==
    IF ~can_ship THEN "Temperature too low on both Wednesday and Thursday"
    ELSE IF wednesday_delivery /\ ~thursday_delivery
    THEN "Delivery possible on Wednesday only"
    ELSE IF thursday_delivery /\ ~wednesday_delivery
    THEN "Delivery possible on Thursday only"
    ELSE "Weather conditions acceptable for delivery"

can_ship_mut(wednesday_delivery, thursday_delivery) == wednesday_delivery

can_ship_of(wednesday_delivery, thursday_delivery) == wednesday_delivery \/ thursday_delivery

classify(city, province, today, forecast_data) ==
    LET wednesday_date == wednesday_date_of(today)
        thursday_date == thursday_date_of(today)
        hourly_times == Get(Get(forecast_data, "hourly", <<>>), "time", <<>>)
        hourly_temps == Get(Get(forecast_data, "hourly", <<>>), "temperature_2m", <<>>)
        temps == business_hours_temps(hourly_times, hourly_temps,
                                      wednesday_date, thursday_date)
        wed_avg_temp == avg_temp(temps.wednesday)
        thu_avg_temp == avg_temp(temps.thursday)
        wednesday_delivery == delivery(wed_avg_temp)
        thursday_delivery == delivery(thu_avg_temp)
        can_ship == can_ship_of(wednesday_delivery, thursday_delivery)
        extra_cold == is_extra_cold(wednesday_delivery, wed_avg_temp,
                                    thursday_delivery, thu_avg_temp)
        reason == base_reason(can_ship, wednesday_delivery, thursday_delivery)
    IN  [can_ship |-> can_ship,
         wednesday_delivery |-> wednesday_delivery,
         thursday_delivery |-> thursday_delivery,
         reason |-> IF extra_cold THEN reason \o " (Extra insulation required)"
                    ELSE reason,
         wed_avg_temp |-> wed_avg_temp,
         thu_avg_temp |-> thu_avg_temp,
         city |-> city,
         province |-> province,
         extra_cold |-> extra_cold,
         wednesday_date |-> wednesday_date,
         thursday_date |-> thursday_date]

location_not_found(city, province) ==
    [can_ship |-> FALSE,
     wednesday_delivery |-> FALSE,
     thursday_delivery |-> FALSE,
     reason |-> "Location not found",
     wed_avg_temp |-> None,
     thu_avg_temp |-> None,
     city |-> city,
     province |-> province,
     extra_cold |-> FALSE]

weather_data_unavailable(city, province, today) ==
    [can_ship |-> FALSE,
     wednesday_delivery |-> FALSE,
     thursday_delivery |-> FALSE,
     reason |-> "Weather data unavailable",
     wed_avg_temp |-> None,
     thu_avg_temp |-> None,
     city |-> city,
     province |-> province,
     wednesday_date |-> wednesday_date_of(today),
     thursday_date |-> thursday_date_of(today)]

\* today is the clock read at line 57; forecast_response is the reply to
\* the request get_weather_forecast sends after its own clock read.
analyze_shipping_conditions(city, province, geo_response, today, forecast_response) ==
    IF get_coordinates(geo_response) = None
    THEN location_not_found(city, province)
    ELSE IF Falsy(get_weather_forecast(forecast_response))
    THEN weather_data_unavailable(city, province, today)
    ELSE classify(city, province, today, get_weather_forecast(forecast_response))

(***************************************************************************)
(* Strings.  A string is a list of tokens: a quantity is a list of         *)
(* characters, an item name a list of words, and the separators ", ",      *)
(* " x " and " | " are tokens.  The empty string is <<>>.                  *)
(***************************************************************************)
Digits == {"0", "1", "2", "3", "4", "5", "6", "7", "8", "9"}

DigitValue(c) ==
    CASE c = "0" -> 0 [] c = "1" -> 1 [] c = "2" -> 2 [] c = "3" -> 3
      [] c = "4" -> 4 [] c = "5" -> 5 [] c = "6" -> 6 [] c = "7" -> 7
      [] c = "8" -> 8 [] c = "9" -> 9

DigitChar(n) == CHOOSE c \in Digits : DigitValue(c) = n

\* int(s) raises ValueError.
raises_ValueError(s) ==
    LET body == IF s # <<>> /\ Head(s) = "-" THEN Tail(s) ELSE s
    IN  body = <<>> \/ \E i \in 1..Len(body) : body[i] \notin Digits

RECURSIVE digits_value(_, _)
digits_value(s, acc) ==
    IF s = <<>> THEN acc
    ELSE digits_value(Tail(s), 10 * acc + DigitValue(Head(s)))

\* int(s) for a string it accepts.
int(s) ==
    IF Head(s) = "-" THEN 0 - digits_value(Tail(s), 0)
    ELSE digits_value(s, 0)

\* str(n), as f"{n}" formats an int.
RECURSIVE str(_)
str(n) ==
    IF n < 0 THEN <<"-">> \o str(0 - n)
    ELSE IF n < 10 THEN <<DigitChar(n)>>
    ELSE str(n \div 10) \o <<DigitChar(n % 10)>>

\* sep.join(list)
RECURSIVE join(_, _)
join(sep, list) ==
    IF list = <<>> THEN <<>>
    ELSE IF Len(list) = 1 THEN list[1]
    ELSE list[1] \o <<sep>> \o join(sep, Tail(list))

\* s.split(sep)
RECURSIVE split_from(_, _, _)
split_from(s, sep, current) ==
    IF s = <<>> THEN <<current>>
    ELSE IF Head(s) = sep THEN <<current>> \o split_from(Tail(s), sep, <<>>)
    ELSE split_from(Tail(s), sep, Append(current, Head(s)))

split(s, sep) == split_from(s, sep, <<>>)

\* s.split(sep, 1)
split_once(s, sep) ==
    IF \E i \in 1..Len(s) : s[i] = sep
    THEN LET i == CHOOSE i \in 1..Len(s) :
                    s[i] = sep /\ \A j \in 1..(i - 1) : s[j] # sep
         IN  << SubSeq(s, 1, i - 1), SubSeq(s, i + 1, Len(s)) >>
    ELSE <<s>>

\* The words of the item names, with word.lower() and the classifier's
\* keywords that occur in the lower-cased word.
lower(word) ==
    CASE word = "Net" -> "net"
      [] word = "Assorted" -> "assorted"
      [] word = "Rock" -> "rock"
      [] word = "Shrimp" -> "shrimp"
      [] word = "ShrimpSafe" -> "shrimpsafe"
      [] word = "Pack" -> "pack"
      [] word = "Potted" -> "potted"
      [] word = "Extreme Blue Bolt" -> "extreme blue bolt"
      [] word = "Red Pinto Galaxy" -> "red pinto galaxy"
      [] OTHER -> word

keywords_in(lower_word) ==
    CASE lower_word = "shrimp" -> {"shrimp"}
      [] lower_word = "shrimpsafe" -> {"shrimp", "shrimpsafe"}
      [] lower_word = "pack" -> {"pack"}
      [] lower_word = "potted" -> {"potted"}
      [] lower_word = "extreme blue bolt" -> {"extreme blue bolt"}
      [] lower_word = "red pinto galaxy" -> {"red pinto galaxy"}
      [] OTHER -> {}

\* keyword in item_name.lower()
in_lower(keyword, item_name) ==
    \E i \in 1..Len(item_name) : keyword \in keywords_in(lower(item_name[i]))

\* The order of str: position of a word in ASCII order, then list order.
word_rank(word) ==
    CASE word = " x " -> 0
      [] word = ", " -> 1
      [] word = "Assorted" -> 2
      [] word = "Extreme Blue Bolt" -> 3
      [] word = "Net" -> 4
      [] word = "Pack" -> 5
      [] word = "Potted" -> 6
      [] word = "Red Pinto Galaxy" -> 7
      [] word = "Rock" -> 8
      [] word = "Shrimp" -> 9
      [] word = "ShrimpSafe" -> 10
      [] word = "large" -> 11
      [] OTHER -> 12

RECURSIVE str_less(_, _)
str_less(a, b) ==
    IF b = <<>> THEN FALSE
    ELSE IF a = <<>> THEN TRUE
    ELSE IF word_rank(Head(a)) # word_rank(Head(b))
    THEN word_rank(Head(a)) < word_rank(Head(b))
    ELSE str_less(Tail(a), Tail(b))

(***************************************************************************)
(* process_orders_csv, first pass (weather.py 161-201).                    *)
(***************************************************************************)
strip_hash(name) == IF name # <<>> /\ Head(name) = "#" THEN Tail(name) ELSE name

order_id_of(row) == strip_hash(Get(row, "Name", <<>>))

is_shrimp_or_potted(item_name) ==
    \/ in_lower("shrimp", item_name) /\ ~in_lower("shrimpsafe", item_name)
    \/ in_lower("extreme blue bolt", item_name)
    \/ in_lower("red pinto galaxy", item_name)
    \/ in_lower("pack", item_name)
    \/ in_lower("potted", item_name)

\* The body of the first loop for one row.
collect(quantities, row) ==
    LET order_id == order_id_of(row)
        quantity == Get(row, "Lineitem quantity", <<>>)
        item_name == Get(row, "Lineitem name", <<>>)
        known == IF order_id \in DOMAIN quantities
                 THEN quantities
                 ELSE [k \in DOMAIN quantities \cup {order_id} |->
                         IF k = order_id THEN <<>> ELSE quantities[k]]
    IN  IF order_id # <<>> /\ quantity # <<>> /\ item_name # <<>>
        THEN IF raises_ValueError(quantity) THEN known
             ELSE [known EXCEPT ![order_id] =
                     Append(@, [quantity |-> int(quantity),
                                item_name |-> item_name,
                                is_shrimp_or_potted |-> is_shrimp_or_potted(item_name)])]
        ELSE quantities

RECURSIVE first_pass(_, _)
first_pass(file_rows, quantities) ==
    IF file_rows = <<>> THEN quantities
    ELSE first_pass(Tail(file_rows), collect(quantities, Head(file_rows)))

\* Lines 224-242: the categorized lists and the combined packing list.
item_str(item) == str(item.quantity) \o <<" x ">> \o item.item_name

RECURSIVE select_items(_, _)
select_items(items, shrimp_or_potted) ==
    IF items = <<>> THEN <<>>
    ELSE IF Head(items).is_shrimp_or_potted = shrimp_or_potted
    THEN <<item_str(Head(items))>> \o select_items(Tail(items), shrimp_or_potted)
    ELSE select_items(Tail(items), shrimp_or_potted)

items_of(quantities, order_id) ==
    IF order_id \in DOMAIN quantities THEN quantities[order_id] ELSE <<>>

shrimp_potted_list(quantities, order_id) ==
    select_items(items_of(quantities, order_id), TRUE)

other_items_list(quantities, order_id) ==
    select_items(items_of(quantities, order_id), FALSE)

packing_list_of(quantities, order_id) ==
    LET shrimp == shrimp_potted_list(quantities, order_id)
        other == other_items_list(quantities, order_id)
        all_items ==
            (IF shrimp # <<>>
             THEN << <<"SHRIMP+POTTED: ">> \o join(", ", shrimp) >> ELSE <<>>)
            \o
            (IF other # <<>>
             THEN << <<"OTHER ITEMS: ">> \o join(", ", other) >> ELSE <<>>)
    IN  join(" | ", all_items)

(***************************************************************************)
(* generate_shipping_report (weather.py 300-367).                          *)
(***************************************************************************)
\* The sort key of line 307; False sorts before True.
B(b) == IF b THEN 1 ELSE 0

sort_key_mut(x) == << B(x["shipping_day"] # "Thursday"),
                      B(x["shipping_day"] # "Wednesday"),
                      B(~x["can_ship"]) >>

sort_key(x) == << B(x["shipping_day"] # "Wednesday"),
                  B(x["shipping_day"] # "Thursday"),
                  B(~x["can_ship"]) >>

KeyLess(a, b) ==
    \/ a[1] < b[1]
    \/ a[1] = b[1] /\ a[2] < b[2]
    \/ a[1] = b[1] /\ a[2] = b[2] /\ a[3] < b[3]

\* sorted() is stable: an element goes after every element not greater.
RECURSIVE insert(_, _)
insert(x, s) ==
    IF s = <<>> THEN <<x>>
    ELSE IF KeyLess(sort_key(x), sort_key(Head(s))) THEN <<x>> \o s
    ELSE <<Head(s)>> \o insert(x, Tail(s))

RECURSIVE sorted(_)
sorted(s) ==
    IF s = <<>> THEN <<>>
    ELSE insert(s[Len(s)], sorted(SubSeq(s, 1, Len(s) - 1)))

\* shopify_weather.py 372-387: sort_key and sorted(decisions, key=sort_key).
shopify_sort_key(decision) ==
    << IF decision["can_ship"] THEN 0 ELSE 1,
       IF decision["wednesday_delivery"] THEN 0
       ELSE IF decision["thursday_delivery"] THEN 1
       ELSE 2 >>

RECURSIVE shopify_insert(_, _)
shopify_insert(x, s) ==
    IF s = <<>> THEN <<x>>
    ELSE IF LET a == shopify_sort_key(x)
                b == shopify_sort_key(Head(s))
            IN  a[1] < b[1] \/ (a[1] = b[1] /\ a[2] < b[2])
    THEN <<x>> \o s
    ELSE <<Head(s)>> \o shopify_insert(x, Tail(s))

RECURSIVE shopify_sorted(_)
shopify_sorted(s) ==
    IF s = <<>> THEN <<>>
    ELSE shopify_insert(s[Len(s)], shopify_sorted(SubSeq(s, 1, Len(s) - 1)))

\* Lines 306-353 build a new list (sorted) and new dicts (modified_decision):
\* what the caller's list of decisions is after the report.
decisions_after_report_mut(decisions) == sorted(decisions)

decisions_after_report(decisions) == decisions

needs_heatpack(decision) ==
    IF decision["wednesday_delivery"] /\ decision["wed_avg_temp"] # None
       /\ Lt(decision["wed_avg_temp"], HEATPACK_TEMP)
    THEN "Y"
    ELSE IF decision["thursday_delivery"] /\ decision["thu_avg_temp"] # None
            /\ Lt(decision["thu_avg_temp"], HEATPACK_TEMP)
    THEN "Y"
    ELSE "N"

\* "Wednesday <date>" is <<"Wednesday", date>>; "N/A" is <<"N/A">>.
shipping_day_with_date(decision) ==
    IF ~decision["can_ship"] THEN <<"N/A">>
    ELSE IF decision["wednesday_delivery"]
    THEN <<"Wednesday", decision["wednesday_date"]>>
    ELSE IF decision["thursday_delivery"]
    THEN <<"Thursday", decision["thursday_date"]>>
    ELSE <<"N/A">>

shipping_temp_mut(decision) ==
    IF decision["thursday_delivery"] THEN decision["thu_avg_temp"]
    ELSE IF decision["wednesday_delivery"] THEN decision["wed_avg_temp"]
    ELSE None

shipping_temp(decision) ==
    IF decision["wednesday_delivery"] /\ decision["shipping_day"] = "Wednesday"
    THEN decision["wed_avg_temp"]
    ELSE IF decision["thursday_delivery"] /\ decision["shipping_day"] = "Thursday"
    THEN decision["thu_avg_temp"]
    ELSE None

\* round(num / den) for den > 0, halves to the even neighbour.
round(num, den) ==
    LET q == num \div den
        r == num % den
    IN  IF 2 * r < den THEN q
        ELSE IF 2 * r > den THEN q + 1
        ELSE IF q % 2 = 0 THEN q ELSE q + 1

\* Line 339: f"{shipping_temp:.1f}°C" is <<tenths of a degree, "°C">>.
formatted_temp(temp) ==
    IF temp = None THEN <<"N/A">>
    ELSE << round(temp[1], temp[2]), "°C" >>

\* The keys line 341-352 reads with decision[...]; a missing one is a KeyError.
ReportKeys == {"order_id", "customer_name", "city", "province", "can_ship",
               "extra_cold", "packing_list", "wednesday_delivery",
               "thursday_delivery", "wed_avg_temp", "thu_avg_temp",
               "shipping_day"}

raises_KeyError(decision) == ~(ReportKeys \subseteq DOMAIN decision)

modified_decision(decision) ==
    [order_id |-> decision["order_id"],
     customer_name |-> decision["customer_name"],
     city |-> decision["city"],
     province |-> decision["province"],
     can_ship |-> decision["can_ship"],
     shipping_day |-> shipping_day_with_date(decision),
     temperature |-> formatted_temp(shipping_temp(decision)),
     extra_cold |-> decision["extra_cold"],
     heatpack |-> needs_heatpack(decision),
     packing_list |-> decision["packing_list"]]

\* Line 356: the columns of the report.
fieldnames == {"order_id", "customer_name", "city", "province", "can_ship",
               "shipping_day", "temperature", "extra_cold", "heatpack",
               "packing_list"}

nothing_to_report_mut(decisions) == FALSE

\* Line 302: "if not decisions".
nothing_to_report(decisions) == decisions = <<>>

(***************************************************************************)
(* generate_warehouse_pick_list (weather.py 385-463).                      *)
(***************************************************************************)
\* Lines 413-424 for one element of other_items.split(', ').
add_item(items_by_name, item) ==
    LET parts == split_once(item, " x ")
    IN  IF Len(parts) = 2 /\ ~raises_ValueError(parts[1])
        THEN LET qty == int(parts[1])
                 item_name == parts[2]
             IN  IF item_name \in DOMAIN items_by_name
                 THEN [items_by_name EXCEPT ![item_name] = @ + qty]
                 ELSE [k \in DOMAIN items_by_name \cup {item_name} |->
                         IF k = item_name THEN qty ELSE items_by_name[k]]
        ELSE items_by_name

RECURSIVE add_items(_, _)
add_items(items_by_name, items) ==
    IF items = <<>> THEN items_by_name
    ELSE add_items(add_item(items_by_name, Head(items)), Tail(items))

RECURSIVE add_orders(_, _)
add_orders(items_by_name, orders) ==
    IF orders = <<>> THEN items_by_name
    ELSE add_orders(
             IF Head(orders)["other_items"] = <<>> THEN items_by_name
             ELSE add_items(items_by_name,
                            split(Head(orders)["other_items"], ", ")),
             Tail(orders))

\* Lines 392-396: the shippable orders of a day, in the order of decisions.
RECURSIVE orders_of_day(_, _)
orders_of_day(decisions, day) ==
    IF decisions = <<>> THEN <<>>
    ELSE (IF Head(decisions)["can_ship"] /\ Head(decisions)["shipping_day"] = day
          THEN <<Head(decisions)>> ELSE <<>>)
         \o orders_of_day(Tail(decisions), day)

warehouse_items(decisions, day) ==
    add_orders(<<>>, orders_of_day(decisions, day))

\* sorted(dict.items()): by item name, the names being distinct.
RECURSIVE sorted_items(_, _)
sorted_items(day, items_by_name) ==
    IF DOMAIN items_by_name = {} THEN <<>>
    ELSE LET first == CHOOSE n \in DOMAIN items_by_name :
                        \A m \in DOMAIN items_by_name \ {n} : str_less(n, m)
         IN  << <<day, first, items_by_name[first]>> >>
             \o sorted_items(day, [k \in DOMAIN items_by_name \ {first} |->
                                     items_by_name[k]])

\* The rows written after the header (lines 453-461).
pick_list_rows(decisions) ==
    sorted_items("Wednesday", warehouse_items(decisions, "Wednesday"))
    \o sorted_items("Thursday", warehouse_items(decisions, "Thursday"))

(***************************************************************************)
(* The environment: clocks, input files and collaborators' replies.        *)
(***************************************************************************)
AddHour(dt) ==
    IF dt.hour = 23 THEN [day |-> dt.day + 1, hour |-> 0]
    ELSE [day |-> dt.day, hour |-> dt.hour + 1]

SeqsUpTo(S, n) == UNION {[1..k -> S] : k \in 0..n}

Location == [lat |-> 510, lon |-> -1140]

GeoResponses ==
    {[status_code |-> 500, json |-> <<>>],
     [status_code |-> 500, json |-> <<Location>>],
     [status_code |-> 200, json |-> <<>>],
     [status_code |-> 200, json |-> <<Location>>]}

\* The days the forecast service is asked about, as ordinals.
WindowDays(now) == now.day .. (now.day + days_until_end_of_week(now))

\* Timestamps <<day ordinal, hour>> the service may report for a request
\* made at now by an analysis that read today: inside the requested window,
\* on a candidate day or (D.other) on the first day of the window.
Timestamps(D, today, now) ==
    LET days == WindowDays(now) \cap
                ({today.day + days_until_wednesday(today),
                  today.day + days_until_thursday(today)}
                 \cup (IF D.other THEN {now.day} ELSE {}))
    IN  days \X D.hours

Earlier(a, b) == a[1] < b[1] \/ (a[1] = b[1] /\ a[2] < b[2])

\* The timestamps of T in chronological order, as the service lists them.
RECURSIVE Chronological(_)
Chronological(T) ==
    IF T = {} THEN <<>>
    ELSE LET first == CHOOSE a \in T : \A b \in T \ {a} : Earlier(a, b)
         IN  <<first>> \o Chronological(T \ {first})

time_str(ts) == <<strftime([day |-> ts[1], hour |-> ts[2]]), ts[2]>>

\* The hourly series: at most MaxSamples timestamps in chronological order,
\* each with a temperature.
HourlySeries(D, today, now) ==
    UNION { LET times == Chronological(T)
            IN  { [time |-> [i \in 1..Len(times) |-> time_str(times[i])],
                   temperature_2m |-> temps] :
                    temps \in [1..Len(times) -> D.temps] } :
            T \in { T \in SUBSET Timestamps(D, today, now) :
                      Cardinality(T) <= MaxSamples } }

ForecastResponses(D, today, now) ==
    {[status_code |-> 500, json |-> <<>>],
     [status_code |-> 200, json |-> <<>>],
     [status_code |-> 200, json |-> [latitude |-> Location.lat]]}
    \cup
    { [status_code |-> 200, json |-> [hourly |-> hourly]] :
        hourly \in HourlySeries(D, today, now) }

BatchSeries == [hours |-> {10}, temps |-> {-30, 80}, other |-> FALSE]

CoarseSeries == [hours |-> {10}, temps |-> {-30, 80}, other |-> TRUE]

FineSeries == [hours |-> {9, 10, 17, 18}, temps |-> {-30, -20, 0, 80}, other |-> TRUE]

\* A CSV row is a dict keyed by column name.  The order name is a list of
\* tokens so that startswith('#') and [1:] can be applied to it.
ItemRow(name, city, province, quantity, item_name) ==
    [k \in {"Name", "Shipping City", "Shipping Province", "Shipping Name",
            "Lineitem quantity", "Lineitem name"} |->
        CASE k = "Name" -> name
          [] k = "Shipping City" -> city
          [] k = "Shipping Province" -> province
          [] k = "Lineitem quantity" -> quantity
          [] k = "Lineitem name" -> item_name
          [] OTHER -> "Kim"]

\* A row of one "Net".
Row(name, city, province) == ItemRow(name, city, province, <<"1">>, <<"Net">>)

Names == { <<"#", "1001">>, <<"1001">>, <<"#", "1002">> }

RowDomain ==
    { Row(n, l[1], l[2]) : n \in Names,
        l \in { <<"Calgary", "AB">>, <<"", "AB">> } }

AllClocks == [day : 0..6, hour : 0..23]

\* Wednesday 16:00, an hour before the cutoff.
BatchClocks == { [day |-> 2, hour |-> 16] }

\* Monday 09:00 and Wednesday 17:00.
TempClocks == { [day |-> 0, hour |-> 9], [day |-> 2, hour |-> 17] }

NoLocals == [called |-> FALSE]

\* The run starts with the export present, holding one of the batches, or
\* absent.
InitWith(Clocks, Batches) ==
    /\ clock \in Clocks
    /\ \/ csv_exists = TRUE /\ rows \in Batches
       \/ csv_exists = FALSE /\ rows = <<>>
    /\ pc = "start"
    /\ row_index = 1
    /\ processed_order_ids = {}
    /\ order_quantities = <<>>
    /\ shipping_decisions = <<>>
    /\ locals = NoLocals
    /\ sorted_decisions = <<>>
    /\ shipping_report = [written |-> FALSE, rows |-> <<>>]
    /\ warehouse_pick_list = [written |-> FALSE, rows |-> <<>>]
    /\ io = [console |-> <<>>, writes |-> <<>>,
             geocoder_calls |-> <<>>, forecast_calls |-> <<>>]
    /\ products = <<>>
    /\ recommendations = <<>>
    /\ shopify_orders = <<>>

(***************************************************************************)
(* process_orders_csv: opening the export and the first pass (157-201).    *)
(***************************************************************************)
\* Lines 290-292: open() raises FileNotFoundError.
FileNotFound ==
    /\ pc = "start"
    /\ ~csv_exists
    /\ io' = [io EXCEPT !.console = Append(@, "Error: CSV file not found.")]
    /\ shipping_decisions' = <<>>
    /\ pc' = "returned"
    /\ UNCHANGED <<clock, rows, row_index, processed_order_ids, locals,
                   sorted_decisions, shipping_report, csv_exists,
                   order_quantities, warehouse_pick_list>>
    /\ UNCHANGED other_programs

\* Lines 158-205: the first loop over the rows.
FirstPass ==
    /\ pc = "start"
    /\ csv_exists
    /\ order_quantities' = first_pass(rows, <<>>)
    /\ pc' = "second_pass"
    /\ UNCHANGED <<clock, rows, row_index, processed_order_ids,
                   shipping_decisions, locals, sorted_decisions,
                   shipping_report, csv_exists, warehouse_pick_list, io>>
    /\ UNCHANGED other_programs

(***************************************************************************)
(* process_orders_csv, second pass (weather.py 208-288): one action per    *)
(* branch of the loop body.                                                *)
(***************************************************************************)
shipping_day_mut(shipping_result) ==
    IF shipping_result["thursday_delivery"] THEN "Thursday"
    ELSE IF shipping_result["wednesday_delivery"] THEN "Wednesday"
    ELSE "None"

shipping_day_of(shipping_result) ==
    IF shipping_result["wednesday_delivery"] THEN "Wednesday"
    ELSE IF shipping_result["thursday_delivery"] THEN "Thursday"
    ELSE "None"

with_order_fields(shipping_result, row) ==
    [k \in DOMAIN shipping_result \cup
           {"order_id", "customer_name", "packing_list",
            "shrimp_potted_items", "other_items", "shipping_day"} |->
        CASE k = "order_id" -> order_id_of(row)
          [] k = "customer_name" -> Get(row, "Shipping Name", "")
          [] k = "packing_list" ->
                packing_list_of(order_quantities, order_id_of(row))
          [] k = "shrimp_potted_items" ->
                join(", ", shrimp_potted_list(order_quantities, order_id_of(row)))
          [] k = "other_items" ->
                join(", ", other_items_list(order_quantities, order_id_of(row)))
          [] k = "shipping_day" -> shipping_day_of(shipping_result)
          [] OTHER -> shipping_result[k]]

missing_location_data(row, today) ==
    [order_id |-> order_id_of(row),
     customer_name |-> Get(row, "Shipping Name", ""),
     can_ship |-> FALSE,
     wednesday_delivery |-> FALSE,
     thursday_delivery |-> FALSE,
     reason |-> "Missing location data",
     wed_avg_temp |-> None,
     thu_avg_temp |-> None,
     city |-> Get(row, "Shipping City", ""),
     province |-> Get(row, "Shipping Province", ""),
     extra_cold |-> FALSE,
     packing_list |-> packing_list_of(order_quantities, order_id_of(row)),
     shrimp_potted_items |->
         join(", ", shrimp_potted_list(order_quantities, order_id_of(row))),
     other_items |->
         join(", ", other_items_list(order_quantities, order_id_of(row))),
     shipping_day |-> "None",
     wednesday_date |-> wednesday_date_of(today),
     thursday_date |-> thursday_date_of(today)]

InLoop == pc = "second_pass" /\ row_index <= Len(rows)

has_location(row) ==
    Get(row, "Shipping City", "") # "" /\ Get(row, "Shipping Province", "") # ""

\* Line 215: the order was already processed; continue.
SkipProcessed ==
    /\ InLoop
    /\ order_id_of(rows[row_index]) \in processed_order_ids
    /\ row_index' = row_index + 1
    /\ UNCHANGED <<clock, rows, pc, processed_order_ids,
                   shipping_decisions, locals, sorted_decisions, shipping_report,
                   csv_exists, order_quantities, warehouse_pick_list, io>>
    /\ UNCHANGED other_programs

Record(row, shipping_result) ==
    /\ shipping_decisions' = Append(shipping_decisions, shipping_result)
    /\ processed_order_ids' = processed_order_ids \cup {order_id_of(row)}
    /\ row_index' = row_index + 1
    /\ UNCHANGED <<rows, pc, sorted_decisions, shipping_report,
                   csv_exists, order_quantities, warehouse_pick_list>>
    /\ UNCHANGED other_programs

\* Lines 244-253 when get_coordinates returns (None, None).
AnalyzeNotFound ==
    /\ InLoop
    /\ LET row == rows[row_index]
       IN  /\ order_id_of(row) \notin processed_order_ids
           /\ has_location(row)
           /\ \E geo_response \in GeoResponses :
                /\ get_coordinates(geo_response) = None
                /\ Record(row, with_order_fields(
                       analyze_shipping_conditions(
                           Get(row, "Shipping City", ""),
                           Get(row, "Shipping Province", ""),
                           geo_response, clock, [status_code |-> 500, json |-> <<>>]),
                       row))
                /\ locals' = [called |-> TRUE, index |-> Len(shipping_decisions) + 1,
                              row |-> row_index,
                              geo_response |-> geo_response,
                              forecast_called |-> FALSE]
                /\ io' = [io EXCEPT !.geocoder_calls = Append(@, row_index)]
                /\ UNCHANGED clock

\* Lines 244-253 when the location is found: the clock is read at line 57
\* and again at line 24, at most an hour apart, then the forecast is fetched.
AnalyzeForecast(D) ==
    /\ InLoop
    /\ LET row == rows[row_index]
       IN  /\ order_id_of(row) \notin processed_order_ids
           /\ has_location(row)
           /\ \E geo_response \in GeoResponses, now \in {clock, AddHour(clock)} :
                /\ get_coordinates(geo_response) # None
                /\ \E forecast_response \in ForecastResponses(D, clock, now) :
                     /\ Record(row, with_order_fields(
                            analyze_shipping_conditions(
                                Get(row, "Shipping City", ""),
                                Get(row, "Shipping Province", ""),
                                geo_response, clock, forecast_response),
                            row))
                     /\ locals' = [called |-> TRUE,
                                   index |-> Len(shipping_decisions) + 1,
                                   row |-> row_index,
                                   geo_response |-> geo_response,
                                   forecast_called |-> TRUE,
                                   today |-> clock,
                                   window |-> forecast_window(now),
                                   forecast_response |-> forecast_response]
                     /\ io' = [io EXCEPT
                                 !.geocoder_calls = Append(@, row_index),
                                 !.forecast_calls = Append(@, row_index)]
                     /\ clock' = now

\* Lines 244-245 and 293-295: requests.get raises in get_coordinates, or in
\* get_weather_forecast after the location was found; the exception leaves
\* the loop and the handler returns [].
AnalyzeRaises ==
    /\ InLoop
    /\ LET row == rows[row_index]
       IN  /\ order_id_of(row) \notin processed_order_ids
           /\ has_location(row)
    /\ \E raising \in {"get_coordinates", "get_weather_forecast"} :
         io' = [io EXCEPT
                  !.geocoder_calls = Append(@, row_index),
                  !.forecast_calls =
                      IF raising = "get_weather_forecast"
                      THEN Append(@, row_index) ELSE @,
                  !.console = Append(@, "Error processing CSV")]
    /\ shipping_decisions' = <<>>
    /\ locals' = NoLocals
    /\ pc' = "returned"
    /\ UNCHANGED <<clock, rows, row_index, processed_order_ids,
                   sorted_decisions, shipping_report, csv_exists,
                   order_quantities, warehouse_pick_list>>
    /\ UNCHANGED other_programs

\* Lines 254-288: city or province is empty.
MissingLocation ==
    /\ InLoop
    /\ LET row == rows[row_index]
       IN  /\ order_id_of(row) \notin processed_order_ids
           /\ ~has_location(row)
           /\ Record(row, missing_location_data(row, clock))
           /\ UNCHANGED <<clock, locals, io>>

\* __main__ (485-489): process_orders_csv has returned and the report is
\* generated (300-382), the pick list included (367).
GenerateShippingReport ==
    /\ \/ pc = "second_pass" /\ row_index > Len(rows)
       \/ pc = "returned"
    /\ IF nothing_to_report(shipping_decisions)
       THEN /\ pc' = "done"
            /\ io' = [io EXCEPT !.console =
                         Append(@, "No shipping decisions to report.")]
            /\ UNCHANGED <<sorted_decisions, shipping_report,
                           warehouse_pick_list, shipping_decisions>>
       ELSE /\ sorted_decisions' = sorted(shipping_decisions)
            /\ shipping_decisions' = decisions_after_report(shipping_decisions)
            /\ IF \E i \in 1..Len(shipping_decisions) :
                     raises_KeyError(shipping_decisions[i])
               THEN /\ pc' = "crashed"
                    /\ UNCHANGED <<shipping_report, warehouse_pick_list, io>>
               ELSE /\ pc' = "done"
                    /\ shipping_report' =
                         [written |-> TRUE,
                          rows |-> [i \in 1..Len(shipping_decisions) |->
                                      modified_decision(sorted_decisions'[i])]]
                    /\ warehouse_pick_list' =
                         [written |-> TRUE,
                          rows |-> pick_list_rows(shipping_decisions)]
                    /\ io' = [io EXCEPT
                                !.writes = @ \o <<"shipping_decisions.csv",
                                                  "warehouse_pick_list.csv">>,
                                !.console = @ \o
                                    <<"Shipping report generated",
                                      "Warehouse pick list generated">>]
    /\ UNCHANGED <<clock, rows, row_index, processed_order_ids,
                   locals, csv_exists, order_quantities>>
    /\ UNCHANGED other_programs

\* The exit status of the interpreter: 1 after an uncaught exception.
exit_status == IF pc = "crashed" THEN 1 ELSE 0

Step(D) ==
    \/ FileNotFound
    \/ FirstPass
    \/ SkipProcessed
    \/ AnalyzeNotFound
    \/ AnalyzeForecast(D)
    \/ AnalyzeRaises
    \/ MissingLocation
    \/ GenerateShippingReport

Next == Step(BatchSeries)

NextNow == Step(CoarseSeries)

NextTemps == Step(FineSeries)

Init == InitWith(BatchClocks, SeqsUpTo(RowDomain, MaxRows))

Spec == Init /\ [][Next]_vars

\* An export with an order without a city, an order with a destination and
\* a second row of that order.
ExampleFile == << Row(<<"#", "1002">>, "", "AB"),
                  Row(<<"#", "1001">>, "Calgary", "AB"),
                  Row(<<"1001">>, "Calgary", "AB") >>

InitNow == InitWith(AllClocks, {ExampleFile})

SpecNow == InitNow /\ [][NextNow]_vars

InitTemps == InitWith(TempClocks, {ExampleFile})

SpecTemps == InitTemps /\ [][NextTemps]_vars

\* Exports whose rows differ in their line items: two orders bound for
\* Calgary, the second also with a row that lost its city.
ItemRows ==
    { ItemRow(<<"#", "1001">>, "Calgary", "AB", i[1], i[2]) :
        i \in { << <<"2">>, <<"Net">> >>,
                << <<"1">>, <<"Rock", ", ", "large">> >>,
                << <<"1">>, <<"Shrimp">> >> } }
    \cup
    { ItemRow(<<"1002">>, "Calgary", "AB", i[1], i[2]) :
        i \in { << <<"x">>, <<"Net">> >>,
                << <<"2">>, <<"Net">> >>,
                << <<"0">>, <<"Net">> >>,
                << <<"1">>, <<"ShrimpSafe", "Pack">> >>,
                << <<"1">>, <<>> >> } }
    \cup
    { ItemRow(<<"1002">>, "", "AB", <<"2">>, <<"Net">>) }

\* One mild sample a day.
ItemSeries == [hours |-> {10}, temps |-> {80}, other |-> FALSE]

NextItems == Step(ItemSeries)

InitItems == InitWith(BatchClocks, SeqsUpTo(ItemRows, MaxRows))

SpecItems == InitItems /\ [][NextItems]_vars

(***************************************************************************)
(* tropica_po_recommendation.py: the recommended order quantities.         *)
(* Quantities are integers; sales with buffer are in hundredths of a unit. *)
(***************************************************************************)
\* Lines 228-249.
calculate_recommended_quantity(sales_quantity, current_inventory, incoming_inventory) ==
    LET buffer == IF sales_quantity >= HIGH_SALES THEN BUFFER_HIGH ELSE BUFFER_LOW
        expected_sales_with_buffer == sales_quantity * buffer
        total_available == current_inventory + incoming_inventory
        needed == IF total_available < 0
                  THEN 100 * (0 - total_available) + expected_sales_with_buffer
                  ELSE IF expected_sales_with_buffer - 100 * total_available > 0
                       THEN expected_sales_with_buffer - 100 * total_available
                       ELSE 0
    IN  round(needed, 100)

\* Lines 287-310: the recommendation for one product.
recommendation(product) ==
    [product_id |-> product.id,
     sales_last_2_weeks |-> product.sales,
     current_inventory |-> product.current,
     incoming_inventory |-> product.incoming,
     committed_quantity |-> product.committed,
     buffer_used |-> IF product.sales >= HIGH_SALES THEN "20%" ELSE "15%",
     recommended_order |->
         calculate_recommended_quantity(product.sales, product.current,
                                        product.incoming)]

\* Line 313: list.sort(key=recommended_order, reverse=True) is stable.
RECURSIVE insert_recommendation(_, _)
insert_recommendation(x, s) ==
    IF s = <<>> THEN <<x>>
    ELSE IF x.recommended_order > Head(s).recommended_order THEN <<x>> \o s
    ELSE <<Head(s)>> \o insert_recommendation(x, Tail(s))

RECURSIVE sort_recommendations(_)
sort_recommendations(s) ==
    IF s = <<>> THEN <<>>
    ELSE insert_recommendation(s[Len(s)],
                               sort_recommendations(SubSeq(s, 1, Len(s) - 1)))

\* What the shop reports for a product: sales of the last two weeks, stock
\* on hand (negative when oversold), incoming stock and units committed to
\* open orders.
ProductData ==
    [sales : {3, 10}, current : {-2, 5}, incoming : {0, 2}, committed : {0, 3}]

\* The vendor's catalog, product i having id i.
Catalogs ==
    UNION { { [i \in 1..n |-> [id |-> i,
                               sales |-> data[i].sales,
                               current |-> data[i].current,
                               incoming |-> data[i].incoming,
                               committed |-> data[i].committed]] :
                data \in [1..n -> ProductData] } : n \in 0..MaxProducts }

\* Lines 255-257: no product of the vendor was found.
NoProducts ==
    /\ pc = "recommend"
    /\ products = <<>>
    /\ pc' = "recommended"
    /\ UNCHANGED <<clock, rows, row_index, processed_order_ids,
                   shipping_decisions, locals, sorted_decisions,
                   shipping_report, csv_exists, order_quantities,
                   warehouse_pick_list, io, products, recommendations,
                   shopify_orders>>

\* Lines 287-310: one turn of the loop over the products.
Recommend ==
    /\ pc = "recommend"
    /\ Len(recommendations) < Len(products)
    /\ recommendations' =
         Append(recommendations,
                recommendation(products[Len(recommendations) + 1]))
    /\ UNCHANGED <<clock, rows, pc, row_index, processed_order_ids,
                   shipping_decisions, locals, sorted_decisions,
                   shipping_report, csv_exists, order_quantities,
                   warehouse_pick_list, io, products, shopify_orders>>

\* Lines 313-315: the loop is over; sort and return.
SortRecommendations ==
    /\ pc = "recommend"
    /\ products # <<>>
    /\ Len(recommendations) = Len(products)
    /\ recommendations' = sort_recommendations(recommendations)
    /\ pc' = "recommended"
    /\ UNCHANGED <<clock, rows, row_index, processed_order_ids,
                   shipping_decisions, locals, sorted_decisions,
                   shipping_report, csv_exists, order_quantities,
                   warehouse_pick_list, io, products, shopify_orders>>

NextPO ==
    \/ NoProducts
    \/ Recommend
    \/ SortRecommendations

\* No export is being processed.
NoExport ==
    /\ clock \in BatchClocks
    /\ csv_exists = FALSE
    /\ rows = <<>>
    /\ row_index = 1
    /\ processed_order_ids = {}
    /\ order_quantities = <<>>
    /\ shipping_decisions = <<>>
    /\ locals = NoLocals
    /\ sorted_decisions = <<>>
    /\ shipping_report = [written |-> FALSE, rows |-> <<>>]
    /\ warehouse_pick_list = [written |-> FALSE, rows |-> <<>>]
    /\ io = [console |-> <<>>, writes |-> <<>>,
             geocoder_calls |-> <<>>, forecast_calls |-> <<>>]

InitPO ==
    /\ NoExport
    /\ pc = "recommend"
    /\ products \in Catalogs
    /\ recommendations = <<>>
    /\ shopify_orders = <<>>

SpecPO == InitPO /\ [][NextPO]_vars

(***************************************************************************)
(* shopify_weather.py: process_shopify_orders and its CSV fallback.        *)
(***************************************************************************)
\* Lines 191-197.
categorize_line_item(item_name) ==
    IF in_lower("potted", item_name) \/ in_lower("shrimp", item_name)
    THEN "potted_shrimp"
    ELSE "other"

\* Lines 54-148: the analysis of weather.py without extra_cold, the dates
\* and the insulation suffix.
shopify_analyze_shipping_conditions(city, province, geo_response, today, forecast_response) ==
    LET result == analyze_shipping_conditions(city, province, geo_response,
                                              today, forecast_response)
        classified == get_coordinates(geo_response) # None
                      /\ ~Falsy(get_weather_forecast(forecast_response))
    IN  [can_ship |-> result["can_ship"],
         wednesday_delivery |-> result["wednesday_delivery"],
         thursday_delivery |-> result["thursday_delivery"],
         reason |-> IF classified
                    THEN base_reason(result["can_ship"],
                                     result["wednesday_delivery"],
                                     result["thursday_delivery"])
                    ELSE result["reason"],
         wed_avg_temp |-> result["wed_avg_temp"],
         thu_avg_temp |-> result["thu_avg_temp"],
         city |-> city,
         province |-> province]

\* Lines 162-188: the pages are fetched in turn; a page is
\* [status_code, json, next], next telling whether the Link header names a
\* next page.
RECURSIVE fetch_orders(_, _, _)
fetch_orders(pages, i, orders) ==
    LET response == pages[i]
    IN  IF response.status_code # 200 THEN <<>>
        ELSE IF "orders" \notin DOMAIN response.json THEN orders
        ELSE IF response.next /\ i < Len(pages)
        THEN fetch_orders(pages, i + 1, orders \o response.json["orders"])
        ELSE orders \o response.json["orders"]

get_shopify_orders(pages) == fetch_orders(pages, 1, <<>>)

\* order.get('name', '').replace('#', '')
replace_hash(name) == SelectSeq(name, LAMBDA c : c # "#")

\* Lines 305-311: both returns come before the loop over the fetched orders.
reaches_order_loop_mut(orders) == orders # <<>>

reaches_order_loop(orders) == FALSE

\* Lines 336-349: the line items of an API order.
RECURSIVE api_items(_, _)
api_items(line_items, category) ==
    IF line_items = <<>> THEN <<>>
    ELSE LET item == Head(line_items)
         IN  (IF item.quantity > 0 /\ categorize_line_item(item.name) = category
              THEN << str(item.quantity) \o <<" x ">> \o item.name >>
              ELSE <<>>)
             \o api_items(Tail(line_items), category)

\* Lines 313-361: the loop over the fetched orders, replies[i] being what
\* the geocoder and the forecast service answer for order i.
RECURSIVE process_api_orders(_, _, _)
process_api_orders(orders, replies, today) ==
    IF orders = <<>> THEN <<>>
    ELSE LET order == Head(orders)
             address == Get(order, "shipping_address", <<>>)
             city == Get(address, "city", "")
             province == Get(address, "province", "")
             line_items == Get(order, "line_items", <<>>)
             potted_shrimp_items == api_items(line_items, "potted_shrimp")
             other_items == api_items(line_items, "other")
             shipping_result ==
                 shopify_analyze_shipping_conditions(
                     city, province, Head(replies).geo_response, today,
                     Head(replies).forecast_response)
             decision ==
                 [k \in DOMAIN shipping_result \cup
                        {"order_id", "customer_name", "potted_shrimp_items",
                         "other_items", "all_items"} |->
                     CASE k = "order_id" -> replace_hash(Get(order, "name", <<>>))
                       [] k = "customer_name" -> Get(address, "name", "")
                       [] k = "potted_shrimp_items" -> join(", ", potted_shrimp_items)
                       [] k = "other_items" -> join(", ", other_items)
                       [] k = "all_items" ->
                             join(", ", potted_shrimp_items \o other_items)
                       [] OTHER -> shipping_result[k]]
         IN  (IF Falsy(address) \/ city = "" \/ province = "" THEN <<>>
              ELSE <<decision>>)
             \o process_api_orders(Tail(orders), Tail(replies), today)

\* Lines 215-243: the body of the fallback's first loop for one row;
\* categories maps an order id to its two lists of "quantity x name".
fallback_collect(categories, row) ==
    LET order_id == order_id_of(row)
        quantity == Get(row, "Lineitem quantity", <<>>)
        item_name == Get(row, "Lineitem name", <<>>)
        known == IF order_id \in DOMAIN categories
                 THEN categories
                 ELSE [k \in DOMAIN categories \cup {order_id} |->
                         IF k = order_id
                         THEN [potted_shrimp |-> <<>>, other |-> <<>>]
                         ELSE categories[k]]
        item_str_ == str(int(quantity)) \o <<" x ">> \o item_name
    IN  IF order_id # <<>> /\ quantity # <<>> /\ item_name # <<>>
        THEN IF raises_ValueError(quantity) THEN known
             ELSE IF categorize_line_item(item_name) = "potted_shrimp"
             THEN [known EXCEPT ![order_id].potted_shrimp = Append(@, item_str_)]
             ELSE [known EXCEPT ![order_id].other = Append(@, item_str_)]
        ELSE categories

RECURSIVE fallback_first_pass(_, _)
fallback_first_pass(file_rows, categories) ==
    IF file_rows = <<>> THEN categories
    ELSE fallback_first_pass(Tail(file_rows),
                             fallback_collect(categories, Head(file_rows)))

\* Lines 264-280: the decision of an order of the export.
fallback_decision(shipping_result, row) ==
    LET order_id == order_id_of(row)
        known == order_id \in DOMAIN order_quantities
        potted_shrimp == IF known THEN order_quantities[order_id].potted_shrimp
                         ELSE <<>>
        other == IF known THEN order_quantities[order_id].other ELSE <<>>
    IN  [k \in DOMAIN shipping_result \cup
               {"order_id", "customer_name", "potted_shrimp_items",
                "other_items", "all_items"} |->
            CASE k = "order_id" -> order_id
              [] k = "customer_name" -> Get(row, "Shipping Name", "")
              [] k = "potted_shrimp_items" -> join(", ", potted_shrimp)
              [] k = "other_items" -> join(", ", other)
              [] k = "all_items" -> join(", ", potted_shrimp \o other)
              [] OTHER -> shipping_result[k]]

\* An order as the API lists it.
ApiOrder(name, city, item_name) ==
    [name |-> name,
     shipping_address |-> [city |-> city, province |-> "AB", name |-> "Kim"],
     line_items |-> << [name |-> item_name, quantity |-> 1] >>]

ApiPage(status_code, json, next) ==
    [status_code |-> status_code, json |-> json, next |-> next]

\* What the orders endpoint may answer, page by page: an error, a body
\* without orders, no order, one page, two pages, a page and an error.
ApiReplies ==
    LET first == ApiOrder(<<"#", "2001">>, "Calgary", <<"Shrimp">>)
        second == ApiOrder(<<"#", "2002">>, "", <<"Net">>)
    IN  { << ApiPage(500, <<>>, FALSE) >>,
          << ApiPage(200, [errors |-> "Not Found"], FALSE) >>,
          << ApiPage(200, [orders |-> <<>>], FALSE) >>,
          << ApiPage(200, [orders |-> <<first>>], FALSE) >>,
          << ApiPage(200, [orders |-> <<first>>], TRUE),
             ApiPage(200, [orders |-> <<second>>], FALSE) >>,
          << ApiPage(200, [orders |-> <<first>>], TRUE),
             ApiPage(500, <<>>, FALSE) >> }

\* The replies of the geocoder and the forecast service to n lookups.
LookupReplies(D, n) ==
    [1..n -> [geo_response : GeoResponses,
              forecast_response : ForecastResponses(D, clock, clock)]]

\* Lines 299, 162-188: the orders are fetched, page by page.
GetShopifyOrders ==
    /\ pc = "process_shopify_orders"
    /\ \E pages \in ApiReplies : shopify_orders' = get_shopify_orders(pages)
    /\ pc' = "fetched"
    /\ UNCHANGED <<clock, rows, row_index, processed_order_ids,
                   shipping_decisions, locals, sorted_decisions,
                   shipping_report, csv_exists, order_quantities,
                   warehouse_pick_list, io, products, recommendations>>

\* Line 163: requests.get raises; nothing catches the exception.
GetShopifyOrdersRaises ==
    /\ pc = "process_shopify_orders"
    /\ pc' = "crashed"
    /\ UNCHANGED <<clock, rows, row_index, processed_order_ids,
                   shipping_decisions, locals, sorted_decisions,
                   shipping_report, csv_exists, order_quantities,
                   warehouse_pick_list, io, products, recommendations,
                   shopify_orders>>

\* Lines 300-311: either return calls the fallback; the loop of lines
\* 313-361 comes after them.
ProcessShopifyOrders(D) ==
    /\ pc = "fetched"
    /\ IF reaches_order_loop(shopify_orders)
       THEN /\ \E replies \in LookupReplies(D, Len(shopify_orders)) :
                 shipping_decisions' =
                     process_api_orders(shopify_orders, replies, clock)
            /\ locals' = [called |-> FALSE, fallback_called |-> FALSE,
                          loop_turns |-> Len(shopify_orders)]
            /\ pc' = "shopify_returned"
            /\ UNCHANGED io
       ELSE /\ io' = [io EXCEPT !.console = Append(@,
                        IF shopify_orders = <<>>
                        THEN "No orders found from Shopify API, falling back to CSV file for testing"
                        ELSE "Using CSV fallback for testing purposes")]
            /\ locals' = [called |-> FALSE, fallback_called |-> TRUE,
                          loop_turns |-> 0]
            /\ pc' = "fallback"
            /\ UNCHANGED shipping_decisions
    /\ UNCHANGED <<clock, rows, row_index, processed_order_ids,
                   sorted_decisions, shipping_report, csv_exists,
                   order_quantities, warehouse_pick_list, products,
                   recommendations, shopify_orders>>

\* Lines 288-290: the export does not exist.
FallbackFileNotFound ==
    /\ pc = "fallback"
    /\ ~csv_exists
    /\ io' = [io EXCEPT !.console = Append(@, "Error: CSV file not found.")]
    /\ shipping_decisions' = <<>>
    /\ pc' = "shopify_returned"
    /\ UNCHANGED <<clock, rows, row_index, processed_order_ids, locals,
                   sorted_decisions, shipping_report, csv_exists,
                   order_quantities, warehouse_pick_list, products,
                   recommendations, shopify_orders>>

\* Lines 204-243: the export is opened and the first loop runs.
FallbackFirstPass ==
    /\ pc = "fallback"
    /\ csv_exists
    /\ order_quantities' = fallback_first_pass(rows, <<>>)
    /\ pc' = "fallback_second_pass"
    /\ UNCHANGED <<clock, rows, row_index, processed_order_ids,
                   shipping_decisions, locals, sorted_decisions,
                   shipping_report, csv_exists, warehouse_pick_list, io,
                   products, recommendations, shopify_orders>>

InFallbackLoop == pc = "fallback_second_pass" /\ row_index <= Len(rows)

\* Lines 256-257: the order was already processed.
FallbackSkipProcessed ==
    /\ InFallbackLoop
    /\ order_id_of(rows[row_index]) \in processed_order_ids
    /\ row_index' = row_index + 1
    /\ UNCHANGED <<clock, rows, pc, processed_order_ids, shipping_decisions,
                   locals, sorted_decisions, shipping_report, csv_exists,
                   order_quantities, warehouse_pick_list, io, products,
                   recommendations, shopify_orders>>

\* Lines 264-284: the destination is analyzed; the clock is read at line 69
\* and, when the location is found, again in get_weather_forecast.
FallbackAnalyze(D) ==
    /\ InFallbackLoop
    /\ LET row == rows[row_index]
       IN  /\ order_id_of(row) \notin processed_order_ids
           /\ has_location(row)
           /\ \E geo_response \in GeoResponses, now \in {clock, AddHour(clock)} :
                /\ get_coordinates(geo_response) = None => now = clock
                /\ \E forecast_response \in ForecastResponses(D, clock, now) :
                     /\ get_coordinates(geo_response) = None =>
                           forecast_response = [status_code |-> 500, json |-> <<>>]
                     /\ shipping_decisions' =
                          Append(shipping_decisions,
                                 fallback_decision(
                                     shopify_analyze_shipping_conditions(
                                         Get(row, "Shipping City", ""),
                                         Get(row, "Shipping Province", ""),
                                         geo_response, clock, forecast_response),
                                     row))
                     /\ io' = [io EXCEPT
                                 !.geocoder_calls = Append(@, row_index),
                                 !.forecast_calls =
                                     IF get_coordinates(geo_response) = None
                                     THEN @ ELSE Append(@, row_index)]
                /\ clock' = now
           /\ processed_order_ids' = processed_order_ids \cup {order_id_of(row)}
    /\ row_index' = row_index + 1
    /\ UNCHANGED <<rows, pc, locals, sorted_decisions, shipping_report,
                   csv_exists, order_quantities, warehouse_pick_list,
                   products, recommendations, shopify_orders>>

\* Lines 291-293: a request raises inside the loop.
FallbackRaises ==
    /\ InFallbackLoop
    /\ LET row == rows[row_index]
       IN  /\ order_id_of(row) \notin processed_order_ids
           /\ has_location(row)
    /\ io' = [io EXCEPT !.geocoder_calls = Append(@, row_index),
                        !.console = Append(@, "Error processing CSV")]
    /\ shipping_decisions' = <<>>
    /\ pc' = "shopify_returned"
    /\ UNCHANGED <<clock, rows, row_index, processed_order_ids, locals,
                   sorted_decisions, shipping_report, csv_exists,
                   order_quantities, warehouse_pick_list, products,
                   recommendations, shopify_orders>>

\* Lines 285-286: city or province is empty; the row is skipped.
FallbackIncomplete ==
    /\ InFallbackLoop
    /\ LET row == rows[row_index]
       IN  /\ order_id_of(row) \notin processed_order_ids
           /\ ~has_location(row)
    /\ io' = [io EXCEPT !.console =
                Append(@, "incomplete shipping information, skipping.")]
    /\ row_index' = row_index + 1
    /\ UNCHANGED <<clock, rows, pc, processed_order_ids, shipping_decisions,
                   locals, sorted_decisions, shipping_report, csv_exists,
                   order_quantities, warehouse_pick_list, products,
                   recommendations, shopify_orders>>

\* Line 295: the loop is over and the decisions are returned.
FallbackReturn ==
    /\ pc = "fallback_second_pass"
    /\ row_index > Len(rows)
    /\ pc' = "shopify_returned"
    /\ UNCHANGED <<clock, rows, row_index, processed_order_ids,
                   shipping_decisions, locals, sorted_decisions,
                   shipping_report, csv_exists, order_quantities,
                   warehouse_pick_list, io, products, recommendations,
                   shopify_orders>>

NextShopify ==
    \/ GetShopifyOrders
    \/ GetShopifyOrdersRaises
    \/ ProcessShopifyOrders(ItemSeries)
    \/ FallbackFileNotFound
    \/ FallbackFirstPass
    \/ FallbackSkipProcessed
    \/ FallbackAnalyze(ItemSeries)
    \/ FallbackRaises
    \/ FallbackIncomplete
    \/ FallbackReturn

\* The rows of the exports the fallback reads.
ShopifyRows ==
    { ItemRow(<<"#", "1001">>, "Calgary", "AB", <<"1">>,
              <<"Assorted", "Shrimp", "Pack">>),
      ItemRow(<<"1001">>, "Calgary", "AB", <<"2">>, <<"ShrimpSafe", "Net">>),
      ItemRow(<<"1002">>, "Calgary", "AB", <<"x">>, <<"Potted", "Rock">>),
      ItemRow(<<"1002">>, "", "AB", <<"1">>, <<"Net">>) }

InitShopify ==
    /\ clock \in BatchClocks
    /\ \/ csv_exists = TRUE /\ rows \in SeqsUpTo(ShopifyRows, MaxRows)
       \/ csv_exists = FALSE /\ rows = <<>>
    /\ pc = "process_shopify_orders"
    /\ row_index = 1
    /\ processed_order_ids = {}
    /\ order_quantities = <<>>
    /\ shipping_decisions = <<>>
    /\ locals = NoLocals
    /\ sorted_decisions = <<>>
    /\ shipping_report = [written |-> FALSE, rows |-> <<>>]
    /\ warehouse_pick_list = [written |-> FALSE, rows |-> <<>>]
    /\ io = [console |-> <<>>, writes |-> <<>>,
             geocoder_calls |-> <<>>, forecast_calls |-> <<>>]
    /\ products = <<>>
    /\ recommendations = <<>>
    /\ shopify_orders = <<>>

SpecShopify == InitShopify /\ [][NextShopify]_vars

(***************************************************************************)
(* Properties.                                                             *)
(***************************************************************************)
Decisions == {shipping_decisions[i] : i \in 1..Len(shipping_decisions)}

\* The most recent call of analyze_shipping_conditions fetched a forecast.
Fetched == locals.called /\ locals.forecast_called

\* ... and went on to classify the two days (line 86 onwards).
Classified == Fetched /\ ~Falsy(get_weather_forecast(locals.forecast_response))

\* The decision that call produced.
Analyzed == shipping_decisions[locals.index]

\* C1: every decision, whichever path produced it, has
\* can_ship = (wednesday_delivery or thursday_delivery).
C1_CanShipIffSomeDay ==
    \A d \in Decisions :
        d["can_ship"] <=> (d["wednesday_delivery"] \/ d["thursday_delivery"])

C1_Witness ==
    /\ \E d \in Decisions : d["can_ship"] /\ ~d["wednesday_delivery"]
    /\ \E d \in Decisions : d["reason"] = "Missing location data"

\* C2: both candidate dates lie in [today, today + 7] and differ.
WithinWeek(date, today) == \E k \in 0..7 : date = strftime(PlusDays(today, k))

C2_DatesWithinWeekAndDistinct ==
    Fetched =>
        /\ WithinWeek(Analyzed["wednesday_date"], locals.today)
        /\ WithinWeek(Analyzed["thursday_date"], locals.today)
        /\ Analyzed["wednesday_date"] # Analyzed["thursday_date"]

C2_Witness ==
    /\ Fetched
    /\ weekday(locals.today) = WEDNESDAY /\ locals.today.hour >= CUTOFF_HOUR
    /\ Analyzed["wednesday_date"] = strftime(PlusDays(locals.today, 7))

\* C3: on the target weekday the resolved date is today + 7 from 17:00 on
\* and today before 17:00; on any other weekday it is today +
\* (target - weekday) mod 7 whatever the hour.
CutoffOffset(target, today) ==
    IF weekday(today) = target
    THEN (IF today.hour >= 17 THEN 7 ELSE 0)
    ELSE CHOOSE k \in 1..6 : (weekday(today) + k) % 7 = target

C3_CutoffRule ==
    Fetched =>
        /\ Analyzed["wednesday_date"] =
             strftime(PlusDays(locals.today, CutoffOffset(2, locals.today)))
        /\ Analyzed["thursday_date"] =
             strftime(PlusDays(locals.today, CutoffOffset(3, locals.today)))

C3_Witness ==
    /\ Fetched
    /\ weekday(locals.today) = THURSDAY /\ locals.today.hour = 17
    /\ Analyzed["thursday_date"] = strftime(PlusDays(locals.today, 7))
    /\ Analyzed["wednesday_date"] = strftime(PlusDays(locals.today, 6))

\* C4: the requested forecast window starts no later than the earlier
\* candidate date and ends no earlier than the later one.
C4_WindowCoversCandidates ==
    Fetched =>
        /\ DateLeq(locals.window.start_date, Analyzed["wednesday_date"])
        /\ DateLeq(locals.window.start_date, Analyzed["thursday_date"])
        /\ DateLeq(Analyzed["wednesday_date"], locals.window.end_date)
        /\ DateLeq(Analyzed["thursday_date"], locals.window.end_date)

\* The roll-forward case, with the two clock reads on both sides of midnight.
C4_Witness ==
    /\ Fetched
    /\ weekday(locals.today) = WEDNESDAY /\ locals.today.hour = 23
    /\ locals.window.start_date = Analyzed["thursday_date"]
    /\ Analyzed["wednesday_date"] = strftime(PlusDays(locals.today, 7))

\* C5: a day's average is the mean of exactly the samples on the candidate
\* date with hour in 10..17; with no such sample it is None and the day is
\* not deliverable; otherwise the day is deliverable iff the mean >= -2.0.
HourlyTimes == Get(Get(locals.forecast_response.json, "hourly", <<>>), "time", <<>>)

HourlyTemps == Get(Get(locals.forecast_response.json, "hourly", <<>>), "temperature_2m", <<>>)

Matching(date) ==
    {i \in 1..Len(HourlyTimes) :
        HourlyTimes[i][1] = date /\ HourlyTimes[i][2] \in 10..17}

RECURSIVE Total(_)
Total(I) ==
    IF I = {} THEN 0
    ELSE LET i == CHOOSE i \in I : TRUE IN HourlyTemps[i] + Total(I \ {i})

MeanIs(avg, deliverable, I) ==
    IF I = {} THEN avg = None /\ ~deliverable
    ELSE /\ avg = <<Total(I), Cardinality(I)>>
         /\ deliverable <=> (Total(I) >= -20 * Cardinality(I))

C5_MeanOfBusinessHours ==
    Classified =>
        /\ MeanIs(Analyzed["wed_avg_temp"], Analyzed["wednesday_delivery"],
                  Matching(Analyzed["wednesday_date"]))
        /\ MeanIs(Analyzed["thu_avg_temp"], Analyzed["thursday_delivery"],
                  Matching(Analyzed["thursday_date"]))

\* Samples at 17:00 and 18:00 on Wednesday; the mean is exactly -2.0.
C5_Witness ==
    /\ Classified
    /\ \E i, j \in 1..Len(HourlyTimes) :
         /\ HourlyTimes[i] = <<Analyzed["wednesday_date"], 17>>
         /\ HourlyTimes[j] = <<Analyzed["wednesday_date"], 18>>
         /\ HourlyTemps[i] = -20 /\ HourlyTemps[j] = -30
    /\ Analyzed["wed_avg_temp"] = <<-20, 1>>
    /\ Analyzed["wednesday_delivery"]
    /\ Analyzed["thu_avg_temp"] = None

\* C6: shipping_day is 'Wednesday' if Wednesday is deliverable, else
\* 'Thursday' if Thursday is deliverable, else 'None'; it is not 'None'
\* iff can_ship.
C6_ShippingDay ==
    \A d \in Decisions :
        /\ d["wednesday_delivery"] => d["shipping_day"] = "Wednesday"
        /\ ~d["wednesday_delivery"] /\ d["thursday_delivery"]
             => d["shipping_day"] = "Thursday"
        /\ ~d["wednesday_delivery"] /\ ~d["thursday_delivery"]
             => d["shipping_day"] = "None"
        /\ d["shipping_day"] # "None" <=> d["can_ship"]

C6_Witness ==
    /\ \E d \in Decisions :
         d["wednesday_delivery"] /\ d["thursday_delivery"]
         /\ d["shipping_day"] = "Wednesday"
    /\ \E d \in Decisions : d["shipping_day"] = "Thursday"

\* C7: whenever both candidate days are deliverable, the date of the
\* chosen day (Wednesday) is earlier than Thursday's date.
C7_WednesdayIsEarlier ==
    Classified /\ Analyzed["wednesday_delivery"] /\ Analyzed["thursday_delivery"]
        => /\ DateLeq(Analyzed["wednesday_date"], Analyzed["thursday_date"])
           /\ Analyzed["wednesday_date"] # Analyzed["thursday_date"]

\* C8: extra_cold is true iff a day is chosen and the chosen day's mean
\* lies in [-2.0, 0.0].
ChosenMean(d) ==
    IF d["wednesday_delivery"] THEN d["wed_avg_temp"]
    ELSE IF d["thursday_delivery"] THEN d["thu_avg_temp"]
    ELSE None

C8_ExtraColdOfChosenDay ==
    \A d \in Decisions :
        "extra_cold" \in DOMAIN d =>
            (d["extra_cold"] <=>
                /\ ChosenMean(d) # None
                /\ ChosenMean(d)[1] >= -20 * ChosenMean(d)[2]
                /\ ChosenMean(d)[1] <= 0)

\* C9: a report row has heatpack 'Y' iff a day is chosen and the chosen
\* day's mean is below 8.0.
C9_HeatpackOfChosenDay ==
    \A i \in 1..Len(shipping_report.rows) :
        shipping_report.rows[i].heatpack = "Y" <=>
            /\ ChosenMean(sorted_decisions[i]) # None
            /\ ChosenMean(sorted_decisions[i])[1] < 80 * ChosenMean(sorted_decisions[i])[2]

\* C10 as stated: the reason of a classified decision is exactly the one
\* of four strings that the deliverability pair selects.
SelectedReason(d) ==
    CASE d["wednesday_delivery"] /\ d["thursday_delivery"]
           -> "Weather conditions acceptable for delivery"
      [] d["wednesday_delivery"] /\ ~d["thursday_delivery"]
           -> "Delivery possible on Wednesday only"
      [] ~d["wednesday_delivery"] /\ d["thursday_delivery"]
           -> "Delivery possible on Thursday only"
      [] OTHER -> "Temperature too low on both Wednesday and Thursday"

C10_ReasonExactlyOneOfFour ==
    Classified => Analyzed["reason"] = SelectedReason(Analyzed)

\* C10 amended: the reason is the string the deliverability pair selects,
\* followed by " (Extra insulation required)" exactly when extra_cold.
C10_ReasonWithInsulationSuffix ==
    Classified =>
        Analyzed["reason"] =
            IF Analyzed["extra_cold"]
            THEN SelectedReason(Analyzed) \o " (Extra insulation required)"
            ELSE SelectedReason(Analyzed)

C10_Witness ==
    /\ Classified
    /\ ~Analyzed["wednesday_delivery"] /\ Analyzed["thursday_delivery"]
    /\ Analyzed["extra_cold"]
    /\ Analyzed["reason"] = "Delivery possible on Thursday only (Extra insulation required)"


(***************************************************************************)
(* Failures of the collaborators.                                          *)
(***************************************************************************)
\* process_orders_csv has returned; shipping_decisions is what it returned.
Returned ==
    \/ pc \in {"returned", "done", "crashed"}
    \/ pc = "second_pass" /\ row_index > Len(rows)

GeocoderFailed ==
    locals.called /\ (locals.geo_response.status_code # 200
                      \/ locals.geo_response.json = <<>>)

\* C11: when the geocoder answers with a status other than 200 or with an
\* empty result, the decision has can_ship false, both day flags false, no
\* average temperature and the reason "Location not found", and no forecast
\* request was made for that order.
C11_LocationNotFound ==
    GeocoderFailed =>
        /\ Analyzed["can_ship"] = FALSE
        /\ Analyzed["wednesday_delivery"] = FALSE
        /\ Analyzed["thursday_delivery"] = FALSE
        /\ Analyzed["wed_avg_temp"] = None
        /\ Analyzed["thu_avg_temp"] = None
        /\ Analyzed["reason"] = "Location not found"
        /\ \A i \in 1..Len(io.forecast_calls) : io.forecast_calls[i] # locals.row

\* A geocoder reply with a body and a status other than 200 was analyzed.
C11_Witness ==
    /\ GeocoderFailed
    /\ locals.geo_response.json # <<>>
    /\ Analyzed["reason"] = "Location not found"
    /\ io.forecast_calls # <<>>

ForecastFailed ==
    Fetched /\ (locals.forecast_response.status_code # 200
                \/ HourlyTimes = <<>> \/ HourlyTemps = <<>>)

\* C12: when the forecast request fails (status other than 200) or succeeds
\* with an hourly series that is empty or missing, the decision has can_ship
\* false and the reason "Weather data unavailable".
C12_WeatherDataUnavailable ==
    ForecastFailed =>
        /\ Analyzed["can_ship"] = FALSE
        /\ Analyzed["reason"] = "Weather data unavailable"

\* The order ids of the rows of the export.
OrderIds == {order_id_of(rows[i]) : i \in 1..Len(rows)}

DecisionsOf(order_id) ==
    {i \in 1..Len(shipping_decisions) :
        shipping_decisions[i]["order_id"] = order_id}

\* C13: a lookup failure never aborts the batch: whatever the geocoder or
\* the forecast service did for an order, a status other than 200 or an
\* error raised by the request, process_orders_csv returns a decision for
\* every order of the export, and an order whose lookup failed has a
\* decision with can_ship false.
C13_FailureNeverAbortsBatch ==
    /\ (csv_exists /\ Returned) => \A id \in OrderIds : DecisionsOf(id) # {}
    /\ (GeocoderFailed \/ ForecastFailed) => Analyzed["can_ship"] = FALSE

(***************************************************************************)
(* Orders and their line items.                                            *)
(***************************************************************************)
\* The line items of an order: the rows with that id, a quantity int()
\* accepts and a non-empty item name, in the order of the export, each as
\* "quantity x name".
RECURSIVE LineItemsFrom(_, _)
LineItemsFrom(order_id, i) ==
    IF i > Len(rows) THEN <<>>
    ELSE LET quantity == rows[i]["Lineitem quantity"]
             item_name == rows[i]["Lineitem name"]
         IN  (IF order_id_of(rows[i]) = order_id /\ item_name # <<>>
                 /\ ~raises_ValueError(quantity)
              THEN << str(int(quantity)) \o <<" x ">> \o item_name >>
              ELSE <<>>)
             \o LineItemsFrom(order_id, i + 1)

LineItems(order_id) == LineItemsFrom(order_id, 1)

\* The elements of list at the positions S, in the order of list.
RECURSIVE Sub(_, _)
Sub(list, S) ==
    IF S = {} THEN <<>>
    ELSE LET last == CHOOSE i \in S : \A j \in S : j <= i
         IN  Append(Sub(list, S \ {last}), list[last])

\* C14: for every export, process_orders_csv returns exactly one decision
\* for each order id of the export and none for any other id, and the
\* decision's shrimp_potted_items and other_items hold, between them, every
\* line item of the order exactly once and in the order of the export.
C14_OneDecisionPerOrder ==
    (csv_exists /\ Returned) =>
        /\ \A i \in 1..Len(shipping_decisions) :
             shipping_decisions[i]["order_id"] \in OrderIds
        /\ \A id \in OrderIds :
             /\ Cardinality(DecisionsOf(id)) = 1
             /\ LET d == shipping_decisions[CHOOSE i \in DecisionsOf(id) : TRUE]
                    L == LineItems(id)
                IN  \E S \in SUBSET (1..Len(L)) :
                      /\ d["shrimp_potted_items"] = join(", ", Sub(L, S))
                      /\ d["other_items"] = join(", ", Sub(L, (1..Len(L)) \ S))

\* The line items process_orders_csv collected, with their categories.
Collected ==
    UNION { {order_quantities[id][i] : i \in 1..Len(order_quantities[id])} :
            id \in DOMAIN order_quantities }

\* C15: the classifier puts every item name in exactly one of the two
\* categories, and a name containing the exclusion keyword 'shrimpsafe' in
\* the category 'other', whichever livestock keywords it also contains.
C15_ExclusionForcesOther ==
    \A item \in Collected :
        /\ item.is_shrimp_or_potted \in BOOLEAN
        /\ in_lower("shrimpsafe", item.item_name) => ~item.is_shrimp_or_potted

(***************************************************************************)
(* The report.                                                             *)
(***************************************************************************)
\* Shippable before unshippable, then Wednesday, Thursday, no day.
Priority(d) ==
    << B(~d["can_ship"]),
       CASE d["shipping_day"] = "Wednesday" -> 0
         [] d["shipping_day"] = "Thursday" -> 1
         [] OTHER -> 2 >>

Ordered(s) ==
    \A i, j \in 1..Len(s) :
        i < j => LET a == Priority(s[i])
                     b == Priority(s[j])
                 IN  a[1] < b[1] \/ (a[1] = b[1] /\ a[2] <= b[2])

Count(s, x) == Cardinality({i \in 1..Len(s) : s[i] = x})

Permutation(s, t) ==
    /\ Len(s) = Len(t)
    /\ \A i \in 1..Len(s) : Count(s, s[i]) = Count(t, s[i])

\* C16: the report lists the decisions as a permutation of the input with
\* every shippable decision before every unshippable one and, within that,
\* Wednesday before Thursday before no day; so does the sort of
\* shopify_weather.py, and the rows written follow that order.
C16_ReportSorted ==
    sorted_decisions # <<>> =>
        /\ Ordered(sorted_decisions)
        /\ Permutation(sorted_decisions, shipping_decisions)
        /\ Ordered(shopify_sorted(shipping_decisions))
        /\ Permutation(shopify_sorted(shipping_decisions), shipping_decisions)
        /\ shipping_report.written =>
             /\ Len(shipping_report.rows) = Len(sorted_decisions)
             /\ \A i \in 1..Len(sorted_decisions) :
                  /\ shipping_report.rows[i].order_id = sorted_decisions[i]["order_id"]
                  /\ shipping_report.rows[i].can_ship = sorted_decisions[i]["can_ship"]

\* A report was written whose order differs from the order of the export:
\* a Thursday delivery came before a Wednesday delivery.
C16_Witness ==
    /\ shipping_report.written
    /\ Len(shipping_decisions) = 2
    /\ shipping_decisions[1]["shipping_day"] = "Thursday"
    /\ shipping_decisions[2]["shipping_day"] = "Wednesday"
    /\ sorted_decisions = <<shipping_decisions[2], shipping_decisions[1]>>

Terminated == pc \in {"done", "crashed"}

\* C17: for every non-empty list of decisions process_orders_csv returns,
\* generate_shipping_report completes and writes one row per decision, each
\* with the ten columns of the report.
C17_ReportOneRowPerDecision ==
    (Terminated /\ shipping_decisions # <<>>) =>
        /\ pc = "done"
        /\ shipping_report.written
        /\ Len(shipping_report.rows) = Len(shipping_decisions)
        /\ \A i \in 1..Len(shipping_report.rows) :
             DOMAIN shipping_report.rows[i] = fieldnames

(***************************************************************************)
(* The warehouse pick list.                                                *)
(***************************************************************************)
\* The 'other' lines of the shippable orders of a day: pairs of the index
\* of a decision and the index of a line item of its order.
OtherLines(day) ==
    { p \in (1..Len(shipping_decisions)) \X (1..Len(rows)) :
        LET d == shipping_decisions[p[1]]
            items == items_of(order_quantities, d["order_id"])
        IN  /\ d["can_ship"]
            /\ d["shipping_day"] = day
            /\ p[2] <= Len(items)
            /\ ~items[p[2]].is_shrimp_or_potted }

LineOf(p) == items_of(order_quantities, shipping_decisions[p[1]]["order_id"])[p[2]]

RECURSIVE TotalQuantity(_)
TotalQuantity(P) ==
    IF P = {} THEN 0
    ELSE LET p == CHOOSE p \in P : TRUE
         IN  LineOf(p).quantity + TotalQuantity(P \ {p})

ExpectedOf(day) ==
    { << day, LineOf(p).item_name,
         TotalQuantity({q \in OtherLines(day) :
                           LineOf(q).item_name = LineOf(p).item_name}) >> :
        p \in OtherLines(day) }

ExpectedPickList == ExpectedOf("Wednesday") \cup ExpectedOf("Thursday")

\* C18: the pick list has a row (D, N, q) exactly when a shippable decision
\* with chosen day D has an 'other' line item named N, q being the sum of
\* the quantities of those lines; each (D, N) has one row, Wednesday's rows
\* come before Thursday's and the rows of a day are sorted by item name.
C18_PickList ==
    warehouse_pick_list.written =>
        LET list == warehouse_pick_list.rows
        IN  /\ {list[i] : i \in 1..Len(list)} = ExpectedPickList
            /\ \A i, j \in 1..Len(list) :
                 i < j => \/ list[i][1] = "Wednesday" /\ list[j][1] = "Thursday"
                          \/ list[i][1] = list[j][1] /\ str_less(list[i][2], list[j][2])

(***************************************************************************)
(* The run as a whole.                                                     *)
(***************************************************************************)
\* C19: when the export does not exist the run aborts with a message and a
\* non-zero exit status: it does not go on to report that there is nothing
\* to report.
C19_MissingFileAborts ==
    (~csv_exists /\ Terminated) =>
        /\ exit_status # 0
        /\ \E i \in 1..Len(io.console) : io.console[i] = "Error: CSV file not found."
        /\ \A i \in 1..Len(io.console) :
             io.console[i] # "No shipping decisions to report."

\* C20: an output file is written only when every order of the export has
\* been evaluated, each file at most once, and none when there are no
\* decisions.
C20_OutputWrittenOnceAtTheEnd ==
    /\ (shipping_report.written \/ warehouse_pick_list.written) => io.writes # <<>>
    /\ io.writes # <<>> =>
         /\ row_index > Len(rows)
         /\ \A id \in OrderIds : id \in processed_order_ids /\ DecisionsOf(id) # {}
    /\ \A i, j \in 1..Len(io.writes) : i # j => io.writes[i] # io.writes[j]
    /\ shipping_decisions = <<>> => io.writes = <<>>

\* Both files were written for an export of two orders.
C20_Witness ==
    /\ io.writes = <<"shipping_decisions.csv", "warehouse_pick_list.csv">>
    /\ Cardinality(OrderIds) = 2
    /\ shipping_report.written
    /\ warehouse_pick_list.written

(***************************************************************************)
(* Lookups, malformed rows and candidate dates across a run.               *)
(***************************************************************************)
Destination(i) == << rows[i]["Shipping City"], rows[i]["Shipping Province"] >>

\* C21: within one run the geocoder and the forecast service are each
\* called at most once for a destination: no two calls are made for rows
\* with the same city and province.
C21_OneLookupPerDestination ==
    /\ \A i, j \in 1..Len(io.geocoder_calls) :
         i # j => Destination(io.geocoder_calls[i]) # Destination(io.geocoder_calls[j])
    /\ \A i, j \in 1..Len(io.forecast_calls) :
         i # j => Destination(io.forecast_calls[i]) # Destination(io.forecast_calls[j])

\* C22: a row whose quantity int() rejects contributes no line item and
\* the others of its order are kept (the line items collected for an order
\* are those of its rows with a parsable quantity and a name, in order),
\* and every line item kept has a positive quantity.
C22_MalformedQuantitySkipped ==
    pc # "start" =>
        /\ \A id \in OrderIds :
             LET items == items_of(order_quantities, id)
             IN  [i \in 1..Len(items) |-> item_str(items[i])] = LineItems(id)
        /\ \A item \in Collected : item.quantity > 0

\* C26: every decision of a run that carries candidate dates carries the
\* same wednesday_date and the same thursday_date.
C26_SameCandidateDates ==
    \A d, e \in Decisions :
        ("wednesday_date" \in DOMAIN d /\ "wednesday_date" \in DOMAIN e) =>
            /\ d["wednesday_date"] = e["wednesday_date"]
            /\ d["thursday_date"] = e["thursday_date"]

(***************************************************************************)
(* The decisions and the rows of the report.                               *)
(***************************************************************************)
\* C25: generating the report and the pick list leaves the list of
\* decisions as process_orders_csv returned it: same length, same order,
\* same fields.
C25_DecisionsImmutable ==
    [][(pc \in {"second_pass", "returned"} /\ pc' \in {"done", "crashed"})
          => shipping_decisions' = shipping_decisions]_vars

\* A report was written in an order other than that of the decisions, with
\* rows whose shipping_day differs from the decision's.
C25_Witness ==
    /\ pc = "done"
    /\ shipping_report.written
    /\ warehouse_pick_list.written
    /\ sorted_decisions # shipping_decisions
    /\ \E i \in 1..Len(sorted_decisions) :
         shipping_report.rows[i].shipping_day # sorted_decisions[i]["shipping_day"]

\* C28: on every report row extra_cold implies can_ship and heatpack 'Y';
\* the temperature is 'N/A' exactly when can_ship is false, and otherwise
\* is the mean of the chosen day (Wednesday's when Wednesday is
\* deliverable, else Thursday's) to one decimal place.
C28_RowFlagsConsistent ==
    \A i \in 1..Len(shipping_report.rows) :
        LET r == shipping_report.rows[i]
            d == sorted_decisions[i]
            mean == IF d["wednesday_delivery"] THEN d["wed_avg_temp"]
                    ELSE d["thu_avg_temp"]
        IN  /\ r.extra_cold => (r.can_ship /\ r.heatpack = "Y")
            /\ (r.temperature = <<"N/A">>) <=> ~r.can_ship
            /\ r.can_ship =>
                 /\ mean # None
                 /\ Len(r.temperature) = 2
                 /\ LET diff == r.temperature[1] * mean[2] - mean[1]
                    IN  -mean[2] <= 2 * diff /\ 2 * diff <= mean[2]

\* A row of an extra-cold order shipped on Thursday although Wednesday has
\* a forecast too.
C28_Witness ==
    \E i \in 1..Len(shipping_report.rows) :
        /\ shipping_report.rows[i].extra_cold
        /\ shipping_report.rows[i].shipping_day[1] = "Thursday"
        /\ sorted_decisions[i]["wed_avg_temp"] # None
        /\ shipping_report.rows[i].temperature # <<"N/A">>

(***************************************************************************)
(* Purchase-order recommendations.                                         *)
(***************************************************************************)
\* C24: the recommended quantity of every product is
\* round(max(0, sales * buffer - (current + incoming - committed))), the
\* buffer being 1.2 from 10 sales on and 1.15 below.
C24_CommittedCounted ==
    \A i \in 1..Len(recommendations) :
        LET rec == recommendations[i]
            buffer == IF rec.sales_last_2_weeks >= 10 THEN 120 ELSE 115
            needed == rec.sales_last_2_weeks * buffer
                      - 100 * (rec.current_inventory + rec.incoming_inventory
                               - rec.committed_quantity)
        IN  rec.recommended_order = round(IF needed > 0 THEN needed ELSE 0, 100)

(***************************************************************************)
(* process_shopify_orders.                                                 *)
(***************************************************************************)
\* The entries of a list of "quantity x name" strings.
Entries(list) == {list[i] : i \in 1..Len(list)}

\* The only keyword in the name is the one inside 'shrimpsafe'.
ShrimpSafeOnly(item_name) ==
    /\ in_lower("shrimpsafe", item_name)
    /\ \A i \in 1..Len(item_name) :
          lower(item_name[i]) # "shrimpsafe" =>
              keywords_in(lower(item_name[i])) = {}

\* The category the first loop of the fallback gave to a kept line item.
CategoryOf(i) ==
    LET row == rows[i]
        lists == order_quantities[order_id_of(row)]
        line == str(int(Get(row, "Lineitem quantity", <<>>))) \o <<" x ">>
                \o Get(row, "Lineitem name", <<>>)
    IN  {category \in {"potted_shrimp", "other"} : line \in Entries(lists[category])}

KeptLine(i) ==
    /\ order_id_of(rows[i]) # <<>>
    /\ Get(rows[i], "Lineitem name", <<>>) # <<>>
    /\ Get(rows[i], "Lineitem quantity", <<>>) # <<>>
    /\ ~raises_ValueError(Get(rows[i], "Lineitem quantity", <<>>))

\* C23: categorize_line_item puts 'Assorted Shrimp Pack' in 'potted_shrimp'
\* and 'ShrimpSafe Net', like every name that contains 'shrimpsafe' and no
\* other livestock keyword, in 'other'.
C23_ShrimpSafeIsOther ==
    pc = "fallback_second_pass" =>
        \A i \in 1..Len(rows) :
            KeptLine(i) =>
                LET item_name == Get(rows[i], "Lineitem name", <<>>)
                IN  /\ item_name = <<"Assorted", "Shrimp", "Pack">> =>
                          /\ categorize_line_item(item_name) = "potted_shrimp"
                          /\ "potted_shrimp" \in CategoryOf(i)
                    /\ ShrimpSafeOnly(item_name) =>
                          /\ categorize_line_item(item_name) = "other"
                          /\ CategoryOf(i) = {"other"}

\* The order ids of the orders the API listed.
ApiOrderIds ==
    {replace_hash(Get(shopify_orders[k], "name", <<>>)) :
        k \in 1..Len(shopify_orders)}

====
